---- MODULE Spec2Model ----
(***************************************************************************)
(* Model of pycloudlib's KVM cloud adapter (pycloudlib/kvm/cloud.py): the  *)
(* image resolver (released_image, daily_image, image_serial, _find_image) *)
(* and the instance-type catalog (_get_instance_types, launch).            *)
(*                                                                         *)
(* Python strings that the code searches, slices or formats are sequences  *)
(* of one-character strings; dictionary keys that are only compared        *)
(* (instance-type names, specification-file paths) are atomic strings.     *)
(* Exceptions are recorded by name in the outcome of the last call:        *)
(*   RuntimeError('Unknown remote: ..')        -> "UnknownRemoteError"     *)
(*   RuntimeError('Unknown instance type: ..') -> "UnknownInstanceTypeError"*)
(*   list index out of range                   -> "IndexError"             *)
(*   dict item access on a missing key         -> "KeyError"               *)
(*   ValueError (wait=False)                   -> "ValueError"             *)
(*   exception of requests.get / yaml.load     -> "RemoteFetchError"       *)
(*   failure of the external command (subp)    -> "ExecError"              *)
(***************************************************************************)
EXTENDS Integers, Sequences, FiniteSets, TLC

VARIABLES
    known_clouds,     \* remote catalog index: the specification-file paths, in enumeration order
    spec_files,       \* remote catalog: path -> mapping of instance-type name to {cpu, mem}
    instance_types,   \* self._instance_types: [set |-> FALSE] is None, else the dict d
    hist,             \* what happened to the catalog so far (first call, first result)
    streams,          \* remote image index: the descriptors of the daily and release remotes
    last              \* the last call made on the adapter: inputs, remote traffic, outcome

vars == <<known_clouds, spec_files, instance_types, hist, streams, last>>

(* ------------------------------ bounds -------------------------------- *)
\* longest catalog index (number of provider entries)
MaxFiles == 2
\* longest descriptor sequence held by one remote of the image index
MaxImages == 2

(* --------------------------- string literals --------------------------- *)
daily_remote == <<"d", "a", "i", "l", "y">>
releases_remote == <<"r", "e", "l", "e", "a", "s", "e">>
tag == <<"t", "a", "g">>
S_sha256_eq == <<"s", "h", "a", "2", "5", "6", "=">>
S_datatype_filter == <<"d", "a", "t", "a", "t", "y", "p", "e", "=", "i", "m", "a", "g", "e", "-", "d", "o", "w", "n", "l", "o", "a", "d", "s">>
S_ftype_filter == <<"f", "t", "y", "p", "e", "=", "d", "i", "s", "k", "1", ".", "i", "m", "g">>
S_arch_eq == <<"a", "r", "c", "h", "=">>
S_release_eq == <<"r", "e", "l", "e", "a", "s", "e", "=">>
S_multipass == <<"m", "u", "l", "t", "i", "p", "a", "s", "s">>
S_launch == <<"l", "a", "u", "n", "c", "h">>
S_name_opt == <<"-", "-", "n", "a", "m", "e">>
S_cpus_opt == <<"-", "-", "c", "p", "u", "s">>
S_mem_opt == <<"-", "-", "m", "e", "m">>
S_cloud_init_opt == <<"-", "-", "c", "l", "o", "u", "d", "-", "i", "n", "i", "t">>
S_dash == <<"-">>
K_sha256 == <<"s", "h", "a", "2", "5", "6">>
K_version_name == <<"v", "e", "r", "s", "i", "o", "n", "_", "n", "a", "m", "e">>
K_release == <<"r", "e", "l", "e", "a", "s", "e">>
K_arch == <<"a", "r", "c", "h">>
K_datatype == <<"d", "a", "t", "a", "t", "y", "p", "e">>
K_ftype == <<"f", "t", "y", "p", "e">>
V_image_downloads == <<"i", "m", "a", "g", "e", "-", "d", "o", "w", "n", "l", "o", "a", "d", "s">>
V_disk1_img == <<"d", "i", "s", "k", "1", ".", "i", "m", "g">>
V_disk_img == <<"d", "i", "s", "k", ".", "i", "m", "g">>

(* ------------------------- Python string helpers ----------------------- *)
\* c in s
Contains(s, c) == \E i \in 1..Len(s) : s[i] = c

\* s.index(c): position of the first c, scanning from the left (1-based here)
RECURSIVE IndexFrom(_, _, _)
IndexFrom(s, c, i) ==
    IF s[i] = c THEN i ELSE IndexFrom(s, c, i + 1)

Index(s, c) == IndexFrom(s, c, 1)

\* s[:i] and s[i+1:] for the 1-based position i
Before(s, i) == SubSeq(s, 1, i - 1)
After(s, i) == SubSeq(s, i + 1, Len(s))

DigitChar(d) == <<"0", "1", "2", "3", "4", "5", "6", "7", "8", "9">>[d + 1]

\* str(n) for an integer n >= 0
RECURSIVE Digits(_)
Digits(n) ==
    IF n < 10 THEN <<DigitChar(n)>>
    ELSE Digits(n \div 10) \o <<DigitChar(n % 10)>>

(* ------------------------------ numbers -------------------------------- *)
\* A number read from YAML: the decimal literal mant / 10^exp (1.5 is Dec(15, 1)).
Dec(mant, exp) == [mant |-> mant, exp |-> exp]

RECURSIVE Pow10(_)
Pow10(e) == IF e = 0 THEN 1 ELSE 10 * Pow10(e - 1)

\* 1024**3
GiB == 1073741824

\* int(x * k): the product truncated toward zero, for x >= 0. The product is
\* split as mant * (k \div den) + (mant * (k % den)) \div den, which is the same
\* integer and keeps every intermediate value inside TLC's 32-bit integers.
\* The decimals used here have at most three fractional digits, so x*2^30 is
\* never within float rounding error of an integer unless x is a multiple of
\* 1/8 (exact in binary): the float product truncates as the exact one does.
IntOfProduct(x, k) ==
    LET den == Pow10(x.exp)
    IN  x.mant * (k \div den) + (x.mant * (k % den)) \div den

\* int(x)
IntOf(x) == IntOfProduct(x, 1)

(* ---------------------------- dictionaries ----------------------------- *)
EmptyDict == [k \in {} |-> k]

\* Update with the merge the wrong way round: the entries already in d win
UpdateKeepingFirst(d, specs) ==
    [k \in (DOMAIN d) \cup (DOMAIN specs) |->
        IF k \in DOMAIN d THEN d[k] ELSE specs[k]]

\* d.update(specs): the entries of specs overwrite those of d
Update(d, specs) ==
    [k \in (DOMAIN d) \cup (DOMAIN specs) |->
        IF k \in DOMAIN specs THEN specs[k] ELSE d[k]]

\* the truth value of self._instance_types: None and the empty dict are false
Truthy(cache) == cache.set /\ DOMAIN cache.d # {}

(* ------------------------ remote catalog fixtures ---------------------- *)
\* specification-file paths the index can name
Paths == {"aws.yaml", "gce.yaml"}

SmallA == [cpu |-> Dec(2, 0), mem |-> Dec(15, 1)]
SmallB == [cpu |-> Dec(1, 0), mem |-> Dec(7, 1)]
LargeA == [cpu |-> Dec(4, 0), mem |-> Dec(1875, 3)]

\* contents each specification file can have (a file with no entries
\* included); both files can define "small", with different values
FileContents ==
    [ p \in Paths |->
        IF p = "aws.yaml"
        THEN { EmptyDict, [k \in {"small"} |-> SmallA] }
        ELSE { EmptyDict,
               [k \in {"small", "large"} |-> IF k = "small" THEN SmallB ELSE LargeA] } ]

\* the catalogs of the fixtures: one content per path
Catalogs ==
    { f \in [Paths -> UNION { FileContents[p] : p \in Paths }] :
        \A p \in Paths : f[p] \in FileContents[p] }

\* instance-type names a caller can ask for ("" stands for None)
TypeNames == {"", "small", "large"}

\* the indexes a catalog can have: up to MaxFiles provider entries, none included
Indexes == UNION { [1..n -> Paths] : n \in 0..MaxFiles }

(* ----------------------- instance-type catalog ------------------------- *)
\* the dict after the loop of lines 225-227 has merged the first k files
RECURSIVE Merged(_, _, _)
Merged(clouds, files, k) ==
    IF k = 0 THEN EmptyDict
    ELSE Update(Merged(clouds, files, k - 1), files[clouds[k]])

\* KVM._get_instance_types with the first n remote fetches succeeding (the
\* index, then the files in order) and the next one, if any, raising.
\* Returns the new self._instance_types, the outcome, the mapping returned
\* and the number of requests.get calls issued.
get_instance_types(cache, clouds, files, n) ==
    IF Truthy(cache)
    THEN [cache |-> cache, outcome |-> "ok", types |-> cache.d, fetched |-> 0]
    ELSE IF n = 0
    THEN [cache |-> cache, outcome |-> "RemoteFetchError",
          types |-> EmptyDict, fetched |-> 1]
    ELSE IF n <= Len(clouds)
    THEN [cache |-> [set |-> TRUE, d |-> Merged(clouds, files, n - 1)],
          outcome |-> "RemoteFetchError", types |-> EmptyDict, fetched |-> n + 1]
    ELSE [cache |-> [set |-> TRUE, d |-> Merged(clouds, files, Len(clouds))],
          outcome |-> "ok", types |-> Merged(clouds, files, Len(clouds)),
          fetched |-> Len(clouds) + 1]

\* How the remote fetches of one call can go: n is the number of fetches
\* that succeed before one raises, Len(clouds) + 1 when none raises. A call
\* that issues no fetch has nothing to choose.
FetchOutcomes(cache, clouds, fetching) ==
    IF fetching /\ ~Truthy(cache) THEN 0..(Len(clouds) + 1)
    ELSE {Len(clouds) + 1}

\* the history after a call of _get_instance_types that returned r
Record(h, r, n) ==
    [ any_call |-> TRUE,
      first_done |-> h.first_done \/ r.outcome = "ok",
      first_types |-> IF ~h.first_done /\ r.outcome = "ok" THEN r.types
                      ELSE h.first_types,
      first_partial |-> h.first_partial
                        \/ (~h.any_call /\ r.outcome # "ok" /\ n >= 2) ]

\* a caller invokes _get_instance_types directly
GetInstanceTypes ==
    \E n \in FetchOutcomes(instance_types, known_clouds, TRUE) :
        \E r \in {get_instance_types(instance_types, known_clouds, spec_files, n)} :
            /\ instance_types' = r.cache
            /\ hist' = Record(hist, r, n)
            /\ last' = [ op |-> "get_instance_types", called |-> TRUE,
                         resolved |-> r.outcome = "ok",
                         later |-> hist.first_done,
                         after_partial |-> hist.first_partial,
                         outcome |-> r.outcome, types |-> r.types,
                         fetched |-> r.fetched ]
            /\ UNCHANGED <<known_clouds, spec_files, streams>>

(* ------------------------------- launch -------------------------------- *)
\* the local files os.path.isfile finds, with what open(..).read() returns
LocalFiles == [p \in {<<"f">>} |-> <<"#", "!">>]

\* image references a caller can pass to launch
LaunchImageIds ==
    { <<"1">>,
      daily_remote \o <<":", "1">>,
      releases_remote \o <<":", "1">>,
      <<"b", "o", "g", "u", "s", ":", "1">> }

\* the remaining arguments of launch and whether the external command succeeds
\* (name and user_data: <<>> stands for None)
LaunchProfiles ==
    { [name |-> <<>>, user_data |-> <<>>, wait |-> TRUE, subp_ok |-> TRUE],
      [name |-> <<"v", "m">>, user_data |-> <<"u">>, wait |-> TRUE, subp_ok |-> TRUE],
      [name |-> <<"v", "m">>, user_data |-> <<"f">>, wait |-> TRUE, subp_ok |-> TRUE],
      [name |-> <<>>, user_data |-> <<>>, wait |-> TRUE, subp_ok |-> FALSE],
      [name |-> <<>>, user_data |-> <<>>, wait |-> FALSE, subp_ok |-> TRUE] }

\* lines 77-78: a reference without ':' gets the daily remote prepended
full_image_id(image_id) ==
    IF ~Contains(image_id, ":") THEN daily_remote \o <<":">> \o image_id
    ELSE image_id

\* KnownType with the membership test left out
KnownTypeUnchecked(instance_type, inst_types) == TRUE

\* line 86: instance_type in inst_types
KnownType(instance_type, inst_types) == instance_type \in DOMAIN inst_types

\* line 88: str(int(inst_types[instance_type]['cpu']))
inst_cpus(spec) == Digits(IntOf(spec.cpu))

\* inst_mem rounding to the nearest integer instead of truncating
inst_mem_rounded(spec) ==
    Digits(IntOfProduct(spec.mem, GiB)
           + (IF 2 * ((spec.mem.mant * (GiB % Pow10(spec.mem.exp))) % Pow10(spec.mem.exp))
                 >= Pow10(spec.mem.exp) THEN 1 ELSE 0))

\* line 89: str(int(inst_types[instance_type]['mem']*1024**3))
inst_mem(spec) == Digits(IntOfProduct(spec.mem, GiB))

\* lines 99-106: the data piped to the external command
launch_data(user_data) ==
    IF user_data = <<>> THEN [set |-> FALSE, text |-> <<>>]
    ELSE IF user_data \in DOMAIN LocalFiles
    THEN [set |-> TRUE, text |-> LocalFiles[user_data]]
    ELSE [set |-> TRUE, text |-> user_data]

\* KVM.launch: the new self._instance_types and what the call did. cmd is the
\* argument list handed to subp (<<>> when subp is not reached); instance is
\* the name of the KVMInstance returned (<<>> when the call raises).
launch(cache, clouds, files, image_id, instance_type, p, n) ==
    LET name == IF p.name = <<>> THEN tag ELSE p.name
        typed == instance_type # ""
        raise(e) ==
            [ cache |-> cache, called |-> FALSE, resolved |-> FALSE,
              types |-> EmptyDict, fetched |-> 0,
              outcome |-> e, invoked |-> FALSE, cmd |-> <<>>,
              data |-> [set |-> FALSE, text |-> <<>>], instance |-> <<>> ]
        run(cmd2) ==
            LET cmd3 == Append(cmd2, full_image_id(image_id))
                cmd4 == IF p.user_data # <<>>
                        THEN cmd3 \o <<S_cloud_init_opt, S_dash>>
                        ELSE cmd3
            IN  [ outcome |-> IF p.subp_ok THEN "ok" ELSE "ExecError",
                  invoked |-> TRUE, cmd |-> cmd4,
                  data |-> launch_data(p.user_data),
                  instance |-> IF p.subp_ok THEN name ELSE <<>> ]
        cmd1 == <<S_multipass, S_launch, S_name_opt, name>>
        \* lines 85-94, r being what _get_instance_types did
        resolve(r) ==
            LET got == [ cache |-> r.cache, called |-> TRUE,
                         resolved |-> r.outcome = "ok", types |-> r.types,
                         fetched |-> r.fetched ]
            IN  IF r.outcome # "ok" THEN got @@ raise(r.outcome)
                ELSE IF ~KnownType(instance_type, r.types)
                THEN got @@ raise("UnknownInstanceTypeError")
                ELSE IF instance_type \notin DOMAIN r.types
                THEN got @@ raise("KeyError")
                ELSE got @@ run(cmd1 \o <<S_cpus_opt,
                                          inst_cpus(r.types[instance_type]),
                                          S_mem_opt,
                                          inst_mem(r.types[instance_type])>>)
    IN  IF ~p.wait THEN raise("ValueError")
        ELSE IF typed
        THEN resolve(get_instance_types(cache, clouds, files, n))
        ELSE run(cmd1) @@ raise("ok")

\* a caller invokes launch
Launch ==
    \E image_id \in LaunchImageIds, instance_type \in TypeNames,
       p \in LaunchProfiles :
      \E n \in FetchOutcomes(instance_types, known_clouds,
                              p.wait /\ instance_type # "") :
        \E r \in {launch(instance_types, known_clouds, spec_files,
                         image_id, instance_type, p, n)} :
            /\ instance_types' = r.cache
            /\ hist' = IF r.called
                       THEN Record(hist, [outcome |-> IF r.resolved THEN "ok"
                                                      ELSE r.outcome,
                                          types |-> r.types], n)
                       ELSE hist
            /\ last' = [ op |-> "launch", image_id |-> image_id,
                         instance_type |-> instance_type, wait |-> p.wait,
                         user_data |-> p.user_data,
                         called |-> r.called, resolved |-> r.resolved,
                         later |-> hist.first_done,
                         after_partial |-> hist.first_partial,
                         types |-> r.types, fetched |-> r.fetched,
                         outcome |-> r.outcome, invoked |-> r.invoked,
                         cmd |-> r.cmd, data |-> r.data,
                         instance |-> r.instance ]
            /\ UNCHANGED <<known_clouds, spec_files, streams>>

(* --------------------------- image resolver ---------------------------- *)
\* an image descriptor of the remote index: a record of its fields
Descriptor(sha256, version_name, release, arch, ftype) ==
    [ sha256 |-> sha256, version_name |-> version_name, release |-> release,
      arch |-> arch, datatype |-> V_image_downloads, ftype |-> ftype ]

\* rec[key] for a field name given as text
Field(rec, key) ==
    CASE key = K_sha256 -> rec.sha256
      [] key = K_version_name -> rec.version_name
      [] key = K_release -> rec.release
      [] key = K_arch -> rec.arch
      [] key = K_datatype -> rec.datatype
      [] key = K_ftype -> rec.ftype

\* the field names a descriptor has
FieldNames == {K_sha256, K_version_name, K_release, K_arch, K_datatype, K_ftype}

\* descriptors a remote can hold: two builds of release x for arch a, one of
\* release y for arch b, and a non-disk1.img item of release x for arch a
DescriptorPool ==
    { Descriptor(<<"1">>, <<"7">>, <<"x">>, <<"a">>, V_disk1_img),
      Descriptor(<<"2">>, <<"8">>, <<"x">>, <<"a">>, V_disk1_img),
      Descriptor(<<"3">>, <<"9">>, <<"y">>, <<"b">>, V_disk1_img),
      Descriptor(<<"4">>, <<"7">>, <<"x">>, <<"a">>, V_disk_img) }

\* the contents one remote can have: up to MaxImages distinct descriptors, in
\* the order the remote returns them
RemoteContents ==
    UNION { { s \in [1..n -> DescriptorPool] :
                \A i, j \in 1..n : s[i] = s[j] => i = j } : n \in 0..MaxImages }

Releases == { <<"x">>, <<"y">> }
Archs == { <<"a">>, <<"b">> }

\* image references a caller can pass to image_serial
ImageRefs ==
    { <<"1">>, <<"9">>,
      daily_remote \o <<":", "2">>,
      releases_remote \o <<":", "1">>,
      releases_remote \o <<":", "1", ":", "2">>,
      <<"b", "o", "g", "u", "s", ":", "1">>,
      <<":", "1">> }

\* one key=value filter holds of a descriptor
FilterHolds(rec, filter) ==
    /\ Contains(filter, "=")
    /\ \E i \in {Index(filter, "=")} :
        \E key \in {Before(filter, i)} :
            key \in FieldNames /\ Field(rec, key) = After(filter, i)

\* BaseCloud._streams_query: the descriptors of the selected remote that
\* satisfy every filter, in the remote's order
streams_query(index, filters, daily) ==
    SelectSeq(IF daily THEN index.daily ELSE index.release,
              LAMBDA rec : \A i \in 1..Len(filters) : FilterHolds(rec, filters[i]))

\* element 0 of a query result: the query issued, and the record or IndexError
first_of(filters, daily, found) ==
    [ queries |-> <<[filters |-> filters, daily |-> daily]>>,
      outcome |-> IF found = <<>> THEN "IndexError" ELSE "ok",
      result |-> IF found = <<>> THEN <<>> ELSE found[1] ]

\* lines 209-214
find_filters(release, arch) ==
    << S_datatype_filter, S_ftype_filter, S_arch_eq \o arch, S_release_eq \o release >>

\* KVM._find_image
find_image(index, release, arch, daily) ==
    first_of(find_filters(release, arch), daily,
             streams_query(index, find_filters(release, arch), daily))

\* released_ref naming the daily remote
released_ref_daily(image_data) == daily_remote \o <<":">> \o image_data.sha256

\* lines 147-148: '%s:%s' % (self._releases_remote, image_data['sha256'])
released_ref(image_data) ==
    releases_remote \o <<":">> \o Field(image_data, K_sha256)

\* lines 163-164: '%s:%s' % (self._daily_remote, image_data['sha256'])
daily_ref(image_data) == daily_remote \o <<":">> \o Field(image_data, K_sha256)

\* KVM.released_image
released_image(index, release, arch) ==
    LET image(r) == IF r.outcome = "ok"
                    THEN [r EXCEPT !.result = released_ref(r.result)] ELSE r
    IN  image(find_image(index, release, arch, FALSE))

\* KVM.daily_image
daily_image(index, release, arch) ==
    LET image(r) == IF r.outcome = "ok"
                    THEN [r EXCEPT !.result = daily_ref(r.result)] ELSE r
    IN  image(find_image(index, release, arch, TRUE))

\* serial_daily without the branch of lines 184-185
serial_daily_always(image_id) == TRUE

\* lines 180-185: daily stays True unless the text before the first ':' is
\* the release remote
serial_daily(image_id) ==
    ~(Contains(image_id, ":")
      /\ Before(image_id, Index(image_id, ":")) = releases_remote)

\* lines 181-187: a prefix that is neither remote raises
serial_unknown(image_id) ==
    /\ Contains(image_id, ":")
    /\ Before(image_id, Index(image_id, ":")) # releases_remote
    /\ Before(image_id, Index(image_id, ":")) # daily_remote

\* lines 181-183: image_id after the split
serial_id(image_id) ==
    IF Contains(image_id, ":") THEN After(image_id, Index(image_id, ":"))
    ELSE image_id

\* KVM.image_serial
image_serial(index, image_id) ==
    LET filters == << S_sha256_eq \o serial_id(image_id) >>
        version(r) == IF r.outcome = "ok"
                      THEN [r EXCEPT !.result = Field(r.result, K_version_name)] ELSE r
    IN  IF serial_unknown(image_id)
        THEN [queries |-> <<>>, outcome |-> "UnknownRemoteError", result |-> <<>>]
        ELSE version(first_of(filters, serial_daily(image_id),
                              streams_query(index, filters, serial_daily(image_id))))

\* what last holds after a call on the image resolver
ImageCall(op, release, arch, image_id, from, r) ==
    [ op |-> op, release |-> release, arch |-> arch, image_id |-> image_id,
      from |-> from, queries |-> r.queries, outcome |-> r.outcome,
      result |-> r.result ]

FindImage ==
    \E release \in Releases, arch \in Archs, daily \in BOOLEAN :
        \E r \in {find_image(streams, release, arch, daily)} :
        /\ last' = ImageCall("find_image", release, arch, <<>>,
                             [op |-> "caller", daily |-> daily], r)
        /\ UNCHANGED <<known_clouds, spec_files, instance_types, hist, streams>>

ReleasedImage ==
    \E release \in Releases, arch \in Archs :
        \E r \in {released_image(streams, release, arch)} :
        /\ last' = ImageCall("released_image", release, arch, <<>>,
                             [op |-> "caller"], r)
        /\ UNCHANGED <<known_clouds, spec_files, instance_types, hist, streams>>

DailyImage ==
    \E release \in Releases, arch \in Archs :
        \E r \in {daily_image(streams, release, arch)} :
        /\ last' = ImageCall("daily_image", release, arch, <<>>,
                             [op |-> "caller"], r)
        /\ UNCHANGED <<known_clouds, spec_files, instance_types, hist, streams>>

ImageSerial ==
    \E image_id \in ImageRefs :
        \E r \in {image_serial(streams, image_id)} :
        /\ last' = ImageCall("image_serial", <<>>, <<>>, image_id,
                             [op |-> "caller"], r)
        /\ UNCHANGED <<known_clouds, spec_files, instance_types, hist, streams>>

\* the caller passes the reference released_image or daily_image just returned
\* to image_serial
SerialOfFoundImage ==
    /\ last.op \in {"released_image", "daily_image"}
    /\ last.outcome = "ok"
    /\ \E r \in {image_serial(streams, last.result)} :
        last' = ImageCall("image_serial", <<>>, <<>>, last.result,
                          [op |-> last.op, release |-> last.release,
                           arch |-> last.arch], r)
    /\ UNCHANGED <<known_clouds, spec_files, instance_types, hist, streams>>

(* --------------------------- specification ----------------------------- *)
NoHistory ==
    [any_call |-> FALSE, first_done |-> FALSE, first_types |-> EmptyDict,
     first_partial |-> FALSE]

\* the adapter right after __init__, against any catalog of the fixtures
Init ==
    /\ known_clouds \in Indexes
    /\ spec_files \in Catalogs
    /\ instance_types = [set |-> FALSE, d |-> EmptyDict]
    /\ hist = NoHistory
    /\ streams = [daily |-> <<>>, release |-> <<>>]
    /\ last = [op |-> "init"]

Next == GetInstanceTypes \/ Launch

Spec == Init /\ [][Next]_vars

\* the adapter against any image index of the fixtures (the catalog is not used)
InitImages ==
    /\ known_clouds = <<>>
    /\ spec_files = [p \in Paths |-> EmptyDict]
    /\ instance_types = [set |-> FALSE, d |-> EmptyDict]
    /\ hist = NoHistory
    /\ streams \in [daily : RemoteContents, release : RemoteContents]
    /\ last = [op |-> "init"]

NextImages ==
    FindImage \/ ReleasedImage \/ DailyImage \/ ImageSerial \/ SerialOfFoundImage

SpecImages == InitImages /\ [][NextImages]_vars


(* ------------------------ helpers of the properties -------------------- *)
\* the integer a decimal numeral denotes
RECURSIVE ParseDigits(_)
ParseDigits(s) ==
    IF s = <<>> THEN 0
    ELSE 10 * ParseDigits(SubSeq(s, 1, Len(s) - 1))
         + (CHOOSE d \in 0..9 : DigitChar(d) = s[Len(s)])

\* b is the integer part of x * k: x * k = b + rem / den with 0 <= rem < den
\* (stated on x.mant * (k % den) to stay inside 32-bit integers)
IsFloorOfProduct(b, x, k) ==
    LET den == Pow10(x.exp)
    IN  \E rem \in 0..(den - 1) :
            (b - x.mant * (k \div den)) * den + rem = x.mant * (k % den)

\* b is x * k rounded to the nearest integer (no product of the fixtures lies
\* exactly half way between two integers)
IsRoundOfProduct(b, x, k) ==
    LET den == Pow10(x.exp)
    IN  \E rem \in 0..(den - 1), up \in {0, 1} :
            /\ (b - up - x.mant * (k \div den)) * den + rem = x.mant * (k % den)
            /\ up = 1 <=> 2 * rem >= den

\* the calls that entered _get_instance_types
CatalogCall == last.op \in {"get_instance_types", "launch"} /\ last.called

\* the launch calls that resolved an instance type and reached the external command
TypedLaunch == last.op = "launch" /\ last.resolved /\ last.invoked

\* the catalog entry a typed launch resolved
LaunchedSpec == last.types[last.instance_type]

\* the image reference in the command line of a launch that reached subp
LaunchedImage == last.cmd[IF last.resolved THEN 9 ELSE 5]

\* the descriptors of a remote whose sha256 is id
WithSha(remote, id) == SelectSeq(remote, LAMBDA rec : rec.sha256 = id)

\* the disk1.img image-download descriptors of a remote for a release and arch
ImagesOf(remote, release, arch) ==
    SelectSeq(remote, LAMBDA rec :
        /\ rec.datatype = V_image_downloads /\ rec.ftype = V_disk1_img
        /\ rec.arch = arch /\ rec.release = release)

\* the single query a call is expected to issue
OneQuery(filters, daily) == << [filters |-> filters, daily |-> daily] >>

(* ------------------------------ properties ----------------------------- *)
\* C1: once a call of _get_instance_types has succeeded, every later call
\* returns the mapping of that first success and issues no remote fetch,
\* whatever the remote catalog holds (an empty one included).
C1_FetchedOnlyOnce ==
    (CatalogCall /\ last.later) =>
        /\ last.fetched = 0
        /\ last.resolved
        /\ last.types = hist.first_types

\* C2: image_serial on a reference with a valid (or omitted) remote whose
\* identifier matches no descriptor of the queried remote ends in NotFoundError.
C2_NoMatchIsNotFound ==
    ( /\ last.op = "image_serial"
      /\ ~serial_unknown(last.image_id)
      /\ WithSha(IF serial_daily(last.image_id) THEN streams.daily
                 ELSE streams.release, serial_id(last.image_id)) = <<>> )
    => last.outcome = "NotFoundError"

\* C3: image_serial splits its argument at the first ':'. Without ':' it
\* queries the daily remote, with prefix 'release' the release remote, with
\* prefix 'daily' the daily remote, each time with the one filter
\* sha256=<identifier>; any other prefix raises the unknown-remote error and
\* issues no query. When the query returns records the result is the
\* version_name of the first one.
C3_SerialSplitsAtFirstColon ==
    last.op = "image_serial" =>
        LET s == last.image_id
            Query(id, daily) ==
                /\ last.queries = OneQuery(<<S_sha256_eq \o id>>, daily)
                /\ LET remote == IF daily THEN streams.daily ELSE streams.release
                   IN  WithSha(remote, id) # <<>> =>
                        /\ last.outcome = "ok"
                        /\ last.result = WithSha(remote, id)[1].version_name
        IN  /\ (\A i \in 1..Len(s) : s[i] # ":") => Query(s, TRUE)
            /\ \A i \in 1..Len(s) :
                (s[i] = ":" /\ \A j \in 1..(i - 1) : s[j] # ":") =>
                    LET remote == SubSeq(s, 1, i - 1)
                        id == SubSeq(s, i + 1, Len(s))
                    IN  /\ remote = <<"r", "e", "l", "e", "a", "s", "e">>
                            => Query(id, FALSE)
                        /\ remote = <<"d", "a", "i", "l", "y">> => Query(id, TRUE)
                        /\ remote \notin { <<"r", "e", "l", "e", "a", "s", "e">>,
                                           <<"d", "a", "i", "l", "y">> }
                            => /\ last.outcome = "UnknownRemoteError"
                               /\ last.queries = <<>>

\* a release-prefixed reference was looked up in the release remote and the
\* version_name of its descriptor returned
C3_Witness ==
    /\ last.op = "image_serial"
    /\ last.image_id = <<"r", "e", "l", "e", "a", "s", "e", ":", "1">>
    /\ last.queries = OneQuery(<<S_sha256_eq \o <<"1">> >>, FALSE)
    /\ last.outcome = "ok"
    /\ last.result = <<"7">>

\* C4: _find_image issues one query with the four filters, scoped by daily,
\* and returns the head of the result, whose release and arch are the inputs;
\* with no matching descriptor it fails with NotFoundError.
C4_FindImageOrNotFound ==
    last.op = "find_image" =>
        LET remote == IF last.from.daily THEN streams.daily ELSE streams.release
            found == ImagesOf(remote, last.release, last.arch)
        IN  /\ last.queries =
                 OneQuery(<< S_datatype_filter, S_ftype_filter,
                             S_arch_eq \o last.arch, S_release_eq \o last.release >>,
                          last.from.daily)
            /\ found = <<>> => last.outcome = "NotFoundError"
            /\ found # <<>> =>
                 /\ last.outcome = "ok"
                 /\ last.result = found[1]
                 /\ last.result.release = last.release
                 /\ last.result.arch = last.arch

C6_UnknownTypeNeverLaunches ==
    ( /\ last.op = "launch"
      /\ last.resolved
      /\ last.instance_type \notin DOMAIN last.types )
    => /\ last.outcome = "UnknownInstanceTypeError"
       /\ ~last.invoked
       /\ last.cmd = <<>>
       /\ last.instance = <<>>

\* a launch asked for a type that a non-empty resolved catalog does not hold
C6_Witness ==
    /\ last.op = "launch"
    /\ last.resolved
    /\ DOMAIN last.types # {}
    /\ last.instance_type \notin DOMAIN last.types
    /\ last.outcome = "UnknownInstanceTypeError"

\* C7: the mapping built by a call that fetched the catalog holds exactly the
\* keys of the specification files the index names, each with the value of
\* the file that comes last in the index among those that define it.
C7_LastFileWins ==
    (CatalogCall /\ last.resolved /\ last.fetched > 0) =>
        /\ \A i \in 1..Len(known_clouds) :
            \A k \in DOMAIN spec_files[known_clouds[i]] :
                /\ k \in DOMAIN last.types
                /\ (\A j \in (i + 1)..Len(known_clouds) :
                        k \notin DOMAIN spec_files[known_clouds[j]])
                    => last.types[k] = spec_files[known_clouds[i]][k]
        /\ \A k \in DOMAIN last.types :
            \E i \in 1..Len(known_clouds) : k \in DOMAIN spec_files[known_clouds[i]]

\* a catalog was built from two files that give "small" different values
C7_Witness ==
    /\ CatalogCall /\ last.resolved /\ last.fetched = Len(known_clouds) + 1
    /\ \E i, j \in 1..Len(known_clouds) :
        /\ i < j
        /\ "small" \in DOMAIN spec_files[known_clouds[i]]
        /\ "small" \in DOMAIN spec_files[known_clouds[j]]
        /\ spec_files[known_clouds[i]]["small"] # spec_files[known_clouds[j]]["small"]
        /\ last.types["small"] = spec_files[known_clouds[j]]["small"]

C9_LaunchedRemoteIsKnown ==
    (last.op = "launch" /\ last.invoked) =>
        /\ Contains(LaunchedImage, ":")
        /\ Before(LaunchedImage, Index(LaunchedImage, ":"))
             \in {daily_remote, releases_remote}

\* C10: after a first call that failed at a specification file with the index
\* and earlier files already merged, a later call that succeeds returns the
\* complete merged catalog.
C10_NoPartialCatalog ==
    (CatalogCall /\ last.after_partial /\ last.resolved) =>
        last.types = Merged(known_clouds, spec_files, Len(known_clouds))

====
